---- MODULE Spec2Model ----
(***************************************************************************)
(* A model of model.ipynb: the notebook reads four prepared hourly tables, *)
(* fills gaps per hour-of-day, splits features from target, compares       *)
(* regressors on validation data, ablates features, refits the chosen      *)
(* model on a reduced feature set, scores it on the test set, pickles it   *)
(* and writes predictions for the future table.                            *)
(*                                                                         *)
(* Three specifications share the variables:                               *)
(*   SpecImpute    handleNullValues applied to every small table           *)
(*   Spec          the notebook, cell by cell, as it is written            *)
(*   SpecAblation  the notebook with features_to_test also allowed to      *)
(*                 name a feature that is in neither feature list          *)
(***************************************************************************)
EXTENDS Integers, Sequences, FiniteSets, TLC

VARIABLES
    phase,      \* SpecImpute: "reading" | "imputed"
    raw,        \* SpecImpute: the table as read_csv returns it
    imputed,    \* SpecImpute: handleNullValues(raw), or NoFrame
    pc,         \* the statement the notebook executes next
    k,          \* position in the outer loop of the current cell
    j,          \* position in the inner loop over best_models
    files,      \* contents of clean_data/*.csv
    features_to_test, \* the list of the ablation cell
    dataset,    \* training_set, validation_set, test_set, toPredict_2022
    X,          \* X_train, X_validation, X_test, X_toPredict (by dataset)
    y,          \* y_train, y_validation, y_test, y_toPredict (by dataset)
    heap,       \* every estimator / ColumnTransformer instance constructed
    env,        \* the notebook's other global names
    out,        \* stdout, model.pkl and predictions.csv
    calls,      \* the fit / predict calls made so far, in order
    error       \* "none", or the exception that ended the run

implVars == <<phase, raw, imputed>>
runVars == <<pc, k, j, files, features_to_test, dataset, X, y, heap, env, out, calls, error>>
vars == <<phase, raw, imputed, pc, k, j, files, features_to_test, dataset, X, y, heap, env,
          out, calls, error>>

(***************************************************************************)
(* Bounds of the model.                                                    *)
(***************************************************************************)
MaxDay == 3
MaxRows == 3

\* Hours in a day: what index.hour is taken modulo.
HoursPerDay == 24

\* A missing value: a float that is no number, encoded below every value.
NaN == 0 - 1
None == "None"
NoFrame == [cols |-> <<>>, index |-> <<>>, data |-> <<>>, obj |-> {}, src |-> None]

Range(s) == {s[i] : i \in 1..Len(s)}

Without(s, names) == SelectSeq(s, LAMBDA c : c \notin names)

(***************************************************************************)
(* Columns of the prepared tables.                                         *)
(***************************************************************************)
DatoTid == "Dato + Tid"
CsvCols == <<DatoTid, "Hour", "isWeekday", "Month", "Globalstraling", "Solskinstid",
             "Lufttemperatur", "Volum">>
ObjectCols == {"Hour", "isWeekday", "Month"}

\* pd.to_datetime with format "%Y-%m-%d %H:%M:%S": the text <<date, hour>> becomes
\* a point in time, counted in hours.
to_datetime(text) == text[1] * HoursPerDay + text[2]

\* DatetimeIndex.hour and the calendar date of a timestamp.
IndexHour(ts) == ts % HoursPerDay
IndexDate(ts) == ts \div HoursPerDay

\* The nearest row above row i that lies in the same group, 0 when there is none.
PrevInGroup(key, i) ==
    LET above == {p \in 1..(i - 1) : key[p] = key[i]}
    IN  IF above = {} THEN 0 ELSE CHOOSE p \in above : \A q \in above : q <= p

\* GroupBy.fillna(method='ffill'): along each group's rows, top to bottom, a NaN
\* takes the value the row above it in the group ends up with.
RECURSIVE GroupFfill(_, _, _, _)
GroupFfill(data, key, i, c) ==
    IF data[i][c] # NaN THEN data[i][c]
    ELSE IF PrevInGroup(key, i) = 0 THEN NaN
    ELSE GroupFfill(data, key, PrevInGroup(key, i), c)

\* DataFrame.fillna(method='ffill') without grouping: the value of the row above.
handleNullValues_plain(ds) ==
    LET idx == [i \in 1..Len(ds.data) |-> to_datetime(ds.data[i][DatoTid])]
        cols == Without(ds.cols, {DatoTid})
        one == [i \in 1..Len(ds.data) |-> 0]
    IN  [cols |-> cols,
         index |-> idx,
         data |-> [i \in 1..Len(ds.data) |->
                     [c \in Range(cols) |-> GroupFfill(ds.data, one, i, c)]],
         obj |-> ds.obj \cup ObjectCols,
         src |-> ds.src]

\* Grouped forward fill followed by a grouped backward fill.
handleNullValues_bfill(ds) ==
    LET idx == [i \in 1..Len(ds.data) |-> to_datetime(ds.data[i][DatoTid])]
        key == [i \in 1..Len(ds.data) |-> IndexHour(idx[i])]
        cols == Without(ds.cols, {DatoTid})
        n == Len(ds.data)
        fwd == [i \in 1..n |-> [c \in Range(cols) |-> GroupFfill(ds.data, key, i, c)]]
        rev == [i \in 1..n |-> fwd[n + 1 - i]]
        rkey == [i \in 1..n |-> key[n + 1 - i]]
    IN  [cols |-> cols,
         index |-> idx,
         data |-> [i \in 1..n |->
                     [c \in Range(cols) |-> GroupFfill(rev, rkey, n + 1 - i, c)]],
         obj |-> ds.obj \cup ObjectCols,
         src |-> ds.src]

\* handleNullValues: 'Dato + Tid' becomes the datetime index, every column is
\* forward-filled within the rows that share the index's hour, and Hour,
\* isWeekday and Month are cast to object.
handleNullValues(ds) ==
    LET idx == [i \in 1..Len(ds.data) |-> to_datetime(ds.data[i][DatoTid])]
        key == [i \in 1..Len(ds.data) |-> IndexHour(idx[i])]
        cols == Without(ds.cols, {DatoTid})
    IN  [cols |-> cols,
         index |-> idx,
         data |-> [i \in 1..Len(ds.data) |->
                     [c \in Range(cols) |-> GroupFfill(ds.data, key, i, c)]],
         obj |-> ds.obj \cup ObjectCols,
         src |-> ds.src]

(***************************************************************************)
(* SpecImpute: read_csv delivers a table row by row, in the order of the   *)
(* file (an hourly series, oldest row first); handleNullValues is then     *)
(* applied to it.                                                          *)
(***************************************************************************)
TempCells == {NaN, 1, 2}
VolumCells == {NaN, 1}
Stamps == {<<d, h>> : d \in 1..MaxDay, h \in 0..1}

CsvRow(text, wd, mo, g, s, l, v) ==
    [c \in Range(CsvCols) |->
        CASE c = DatoTid -> text
          [] c = "Hour" -> text[2]
          [] c = "isWeekday" -> wd
          [] c = "Month" -> mo
          [] c = "Globalstraling" -> g
          [] c = "Solskinstid" -> s
          [] c = "Lufttemperatur" -> l
          [] OTHER -> v]

CsvFrame(name, rows) ==
    [cols |-> CsvCols, index |-> <<>>, data |-> rows, obj |-> {}, src |-> name]

ReadRow ==
    /\ phase = "reading"
    /\ Len(raw.data) < MaxRows
    /\ \E text \in Stamps, l \in TempCells, v \in VolumCells :
         /\ IF raw.data = <<>> THEN TRUE
            ELSE to_datetime(raw.data[Len(raw.data)][DatoTid]) < to_datetime(text)
         /\ raw' = [raw EXCEPT !.data = Append(@, CsvRow(text, 1, 1, 0, 0, l, v))]
    /\ UNCHANGED <<phase, imputed>>
    /\ UNCHANGED runVars

Impute ==
    /\ phase = "reading"
    /\ raw.data # <<>>
    /\ imputed' = handleNullValues(raw)
    /\ phase' = "imputed"
    /\ UNCHANGED raw
    /\ UNCHANGED runVars

RunIdle ==
    /\ pc = "idle"
    /\ k = 0 /\ j = 0
    /\ files = None /\ features_to_test = <<>>
    /\ dataset = None /\ X = None /\ y = None
    /\ heap = <<>> /\ env = None /\ out = None
    /\ calls = <<>> /\ error = "none"

InitImpute ==
    /\ phase = "reading"
    /\ raw = CsvFrame("table", <<>>)
    /\ imputed = NoFrame
    /\ RunIdle

NextImpute == ReadRow \/ Impute

SpecImpute == InitImpute /\ [][NextImpute]_vars

(***************************************************************************)
(* pandas: DataFrame.drop and splitSet.                                    *)
(***************************************************************************)
DatasetNames == <<"training_set", "validation_set", "test_set", "toPredict_2022">>

AllFeatures == {"Hour", "isWeekday", "Month", "Globalstraling", "Solskinstid", "Lufttemperatur"}

\* DataFrame.drop(names, axis=1) when every name is a column: a new frame
\* without them; the frame it is called on is left as it is.
Drop(fr, names) ==
    LET cols == Without(fr.cols, names)
    IN  [fr EXCEPT !.cols = cols,
                   !.data = [i \in 1..Len(fr.data) |-> [c \in Range(cols) |-> fr.data[i][c]]]]

\* DataFrame.drop raises KeyError for a label that is not a column.
DropRaises(fr, names) == ~(names \subseteq Range(fr.cols))

\* splitSet: X is the table without Volum, y is its Volum column.
splitSet_X(set) == Drop(set, {"Volum"})
splitSet_y(set) ==
    [index |-> set.index,
     data |-> [i \in 1..Len(set.data) |-> set.data[i]["Volum"]],
     src |-> set.src]

NoSeries == [index |-> <<>>, data |-> <<>>, src |-> None]

(***************************************************************************)
(* sklearn: ColumnTransformer(OneHotEncoder, StandardScaler).              *)
(***************************************************************************)
RECURSIVE SumSeq(_)
SumSeq(s) == IF s = <<>> THEN 0 ELSE s[1] + SumSeq(Tail(s))

RECURSIVE SortedSeq(_)
SortedSeq(S) ==
    IF S = {} THEN <<>>
    ELSE LET m == CHOOSE a \in S : \A b \in S : a <= b
         IN  <<m>> \o SortedSeq(S \ {m})

Column(fr, c) == [i \in 1..Len(fr.data) |-> fr.data[i][c]]

\* OneHotEncoder.fit: categories_ of a column, its distinct values in order.
OneHotFit(fr, c) == SortedSeq(Range(Column(fr, c)))

\* OneHotEncoder.transform of one value: one indicator per known category; a
\* value that is no known category gives all zeros under handle_unknown="ignore".
OneHotBlock(categories, v) == [p \in 1..Len(categories) |-> IF categories[p] = v THEN 1 ELSE 0]

\* StandardScaler.fit: count, sum and sum of squares of the values present.
ScalerFit(fr, c) ==
    LET present == SelectSeq(Column(fr, c), LAMBDA v : v # NaN)
    IN  <<Len(present), SumSeq(present), SumSeq([i \in 1..Len(present) |-> present[i] * present[i]])>>

\* StandardScaler.transform of one value, (v - mean) / scale, kept exact as
\* <<n*v - sum, n*n*variance>>: the value is the first over the root of the
\* second. A zero variance scales by 1; NaN stays NaN, written <<NaN>>.
ScaledNaN == <<NaN>>
ScalerTransform(st, v) ==
    LET n == st[1]
        var == n * st[3] - st[2] * st[2]
    IN  IF v = NaN \/ n = 0 THEN ScaledNaN
        ELSE <<n * v - st[2], IF var = 0 THEN n * n ELSE var>>

\* A ColumnTransformer as the builders construct it.
NewColumnTransformer(categorical_features, numeric_features, handle_unknown) ==
    [class |-> "ColumnTransformer",
     cat |-> categorical_features,
     num |-> numeric_features,
     handle_unknown |-> handle_unknown,
     nfit |-> 0,
     state |-> <<>>]

NewEstimator(class) ==
    [class |-> class, cat |-> <<>>, num |-> <<>>, handle_unknown |-> "", nfit |-> 0,
     state |-> <<>>]

\* The same preprocessor with OneHotEncoder's default, handle_unknown="error".
preprocess_strict ==
    NewColumnTransformer(<<"Hour", "isWeekday", "Month">>,
                         <<"Globalstraling", "Solskinstid", "Lufttemperatur">>, "error")

\* preprocess: the preprocessor over all six features.
preprocess ==
    NewColumnTransformer(<<"Hour", "isWeekday", "Month">>,
                         <<"Globalstraling", "Solskinstid", "Lufttemperatur">>, "ignore")

\* list.remove inside try/except: the list without the name, the list itself
\* when the name is not in it.
RemoveIgnoringAbsent(list, name) == Without(list, {name})

\* check_feature_process: the preprocessor with feature_to_drop removed from
\* whichever list holds it.
check_feature_process(feature_to_drop) ==
    NewColumnTransformer(
        RemoveIgnoringAbsent(<<"Hour", "isWeekday", "Month">>, feature_to_drop),
        RemoveIgnoringAbsent(<<"Lufttemperatur", "Globalstraling", "Solskinstid">>, feature_to_drop),
        "ignore")

\* preprocess_selected_features: the preprocessor over the reduced feature set.
preprocess_selected_features ==
    NewColumnTransformer(<<"Hour", "isWeekday", "Month">>, <<"Lufttemperatur">>, "ignore")

\* ColumnTransformer.fit raises when a listed column is not in the frame.
CTMissingColumns(ct, fr) == ~((Range(ct.cat) \cup Range(ct.num)) \subseteq Range(fr.cols))

\* ColumnTransformer.fit: the parameters learnt from the frame it is given.
CTFit(ct, fr) ==
    [categories |-> [b \in 1..Len(ct.cat) |-> OneHotFit(fr, ct.cat[b])],
     stats |-> [b \in 1..Len(ct.num) |-> ScalerFit(fr, ct.num[b])]]

\* OneHotEncoder.transform raises on an unknown category unless told to ignore it.
CTUnknownRaises(ct, fr) ==
    /\ ct.handle_unknown # "ignore"
    /\ \E i \in 1..Len(fr.data) : \E b \in 1..Len(ct.cat) :
          fr.data[i][ct.cat[b]] \notin Range(ct.state.categories[b])

\* ColumnTransformer.transform: the listed columns are taken from the frame by
\* name; per row, the one-hot blocks first, then the scaled numeric values.
CTTransform(ct, fr) ==
    [i \in 1..Len(fr.data) |->
        [b \in 1..Len(ct.cat) |-> OneHotBlock(ct.state.categories[b], fr.data[i][ct.cat[b]])]
        \o
        [b \in 1..Len(ct.num) |-> ScalerTransform(ct.state.stats[b], fr.data[i][ct.num[b]])]]

(***************************************************************************)
(* sklearn: the regressors.  DummyRegressor(strategy="mean") predicts the  *)
(* mean of the training target.  Every other regressor is represented by   *)
(* one deterministic function of the transformed training matrix, the      *)
(* training target and the transformed row: the mean target of the         *)
(* training rows nearest to the row.  Predictions are kept in tenths.      *)
(***************************************************************************)
MatrixHasNaN(Xt) == \E i \in 1..Len(Xt) : \E b \in 1..Len(Xt[i]) : Xt[i][b] = ScaledNaN

Mismatch(a, b) == Cardinality({p \in 1..Len(a) : a[p] # b[p]})

MeanTenths(vals) == (10 * SumSeq(vals)) \div Len(vals)

EstimatorPredictRow(est, xt) ==
    IF est.class = "DummyRegressor" THEN MeanTenths(est.state.y)
    ELSE LET n == Len(est.state.Xt)
             best == CHOOSE d \in 0..Len(xt) :
                        /\ \E r \in 1..n : Mismatch(est.state.Xt[r], xt) = d
                        /\ \A r \in 1..n : Mismatch(est.state.Xt[r], xt) >= d
             near == SelectSeq([r \in 1..n |-> r],
                               LAMBDA r : Mismatch(est.state.Xt[r], xt) = best)
         IN  MeanTenths([q \in 1..Len(near) |-> est.state.y[near[q]]])

EstimatorPredict(est, Xt) == [i \in 1..Len(Xt) |-> EstimatorPredictRow(est, Xt[i])]

(***************************************************************************)
(* mean_squared_error, np.sqrt and round.                                  *)
(***************************************************************************)
\* Sum of squared errors in hundredths, with the number of rows.
mean_squared_error(y_true, y_pred) ==
    <<SumSeq([i \in 1..Len(y_true) |->
                (10 * y_true[i] - y_pred[i]) * (10 * y_true[i] - y_pred[i])]),
      Len(y_true)>>

\* round(np.sqrt(MSE)): the integer nearest to the root, the even one on a tie.
RoundedRoot(mse) ==
    LET sse == mse[1]
        n == mse[2]
    IN  CHOOSE r \in 0..(sse + 1) :
            /\ (r = 0 \/ (2 * r - 1) * (2 * r - 1) * 25 * n <= sse)
            /\ sse <= (2 * r + 1) * (2 * r + 1) * 25 * n
            /\ (sse = (2 * r + 1) * (2 * r + 1) * 25 * n => r % 2 = 0)
            /\ ((r > 0 /\ sse = (2 * r - 1) * (2 * r - 1) * 25 * n) => r % 2 = 0)

\* Truncation instead of rounding.
RoundHalfEven_floor(t) == t \div 10

\* Series.round(): tenths to the nearest whole number, the even one on a tie.
RoundHalfEven(t) ==
    LET q == t \div 10
        rest == t % 10
    IN  IF rest < 5 THEN q
        ELSE IF rest > 5 THEN q + 1
        ELSE IF q % 2 = 0 THEN q ELSE q + 1

(***************************************************************************)
(* Pipelines.  make_pipeline(preprocessor, model) wraps the two instances  *)
(* it is given, without copying them: fitting the pipeline fits those      *)
(* instances in place.  Every call on an instance is appended to calls.    *)
(***************************************************************************)
Event(op, obj, ver, Xf, ysrc, Xt, cell, feat) ==
    [op |-> op, obj |-> obj, ver |-> ver, src |-> Xf.src, ysrc |-> ysrc, cols |-> Xf.cols,
     Xt |-> Xt, cell |-> cell, feature |-> feat]

\* estimator.fit(Xt, y): input with NaN is refused (DummyRegressor does not look at X).
EstimatorFit(h, est, Xf, Xt, yv, cell, feat) ==
    IF NaN \in Range(yv.data) \/ (h[est].class # "DummyRegressor" /\ MatrixHasNaN(Xt))
    THEN [heap |-> h, events |-> <<>>, err |-> "ValueError: NaN"]
    ELSE LET h1 == [h EXCEPT ![est].state = [Xt |-> Xt, y |-> yv.data], ![est].nfit = @ + 1]
         IN  [heap |-> h1,
              events |-> <<Event("fit", est, h1[est].nfit, Xf, yv.src, <<>>, cell, feat)>>,
              err |-> "none"]

\* Pipeline.fit(X, y): the preprocessor's fit_transform on X, then the estimator's fit.
PipelineFit(h, pipe, Xf, yv, cell, feat) ==
    LET pre == pipe[1]
        est == pipe[2]
    IN  IF CTMissingColumns(h[pre], Xf)
        THEN [heap |-> h, events |-> <<>>, err |-> "ValueError: missing column"]
        ELSE LET h1 == [h EXCEPT ![pre].state = CTFit(h[pre], Xf), ![pre].nfit = @ + 1]
                 Xt == CTTransform(h1[pre], Xf)
                 ev == Event("fit", pre, h1[pre].nfit, Xf, yv.src, Xt, cell, feat)
                 r == EstimatorFit(h1, est, Xf, Xt, yv, cell, feat)
             IN  [r EXCEPT !.events = <<ev>> \o @]

\* estimator.predict(Xt).
EstimatorPredictCall(h, est, Xf, Xt, cell, feat) ==
    IF h[est].nfit = 0 THEN [pred |-> <<>>, events |-> <<>>, err |-> "NotFittedError"]
    ELSE IF h[est].class # "DummyRegressor" /\ MatrixHasNaN(Xt)
    THEN [pred |-> <<>>, events |-> <<>>, err |-> "ValueError: NaN"]
    ELSE [pred |-> EstimatorPredict(h[est], Xt),
          events |-> <<Event("predict", est, h[est].nfit, Xf, None, <<>>, cell, feat)>>,
          err |-> "none"]

\* Pipeline.predict(X): the preprocessor's transform of X, then the estimator's predict.
PipelinePredict(h, pipe, Xf, cell, feat) ==
    LET pre == pipe[1]
        est == pipe[2]
    IN  IF h[pre].nfit = 0 THEN [pred |-> <<>>, events |-> <<>>, err |-> "NotFittedError"]
        ELSE IF CTMissingColumns(h[pre], Xf)
        THEN [pred |-> <<>>, events |-> <<>>, err |-> "ValueError: missing column"]
        ELSE IF CTUnknownRaises(h[pre], Xf)
        THEN [pred |-> <<>>, events |-> <<>>, err |-> "ValueError: unknown category"]
        ELSE LET Xt == CTTransform(h[pre], Xf)
                 ev == Event("transform", pre, h[pre].nfit, Xf, None, Xt, cell, feat)
                 r == EstimatorPredictCall(h, est, Xf, Xt, cell, feat)
             IN  [r EXCEPT !.events = <<ev>> \o @]

\* The body shared by compare_models and check_feature_compare: fit the
\* pipeline, predict the second frame, score the predictions against the target.
FitPredictScore(h, pipe, Xfit, yfit, Xeval, yeval, cell, feat) ==
    LET f == PipelineFit(h, pipe, Xfit, yfit, cell, feat)
    IN  IF f.err # "none"
        THEN [heap |-> f.heap, events |-> f.events, err |-> f.err, y_pred |-> <<>>,
              y_true |-> yeval.src, MSE |-> <<0, 0>>]
        ELSE LET q == PipelinePredict(f.heap, pipe, Xeval, cell, feat)
             IN  [heap |-> f.heap,
                  events |-> f.events \o q.events,
                  err |-> q.err,
                  y_pred |-> q.pred,
                  y_true |-> yeval.src,
                  MSE |-> IF q.err = "none" THEN mean_squared_error(yeval.data, q.pred)
                          ELSE <<0, 0>>]

\* The same with the two calls in the other order.
PredictFitScore(h, pipe, Xfit, yfit, Xeval, yeval, cell, feat) ==
    LET q == PipelinePredict(h, pipe, Xeval, cell, feat)
        f == PipelineFit(h, pipe, Xfit, yfit, cell, feat)
    IN  [heap |-> f.heap,
         events |-> q.events \o f.events,
         err |-> IF q.err # "none" THEN q.err ELSE f.err,
         y_pred |-> q.pred,
         y_true |-> yeval.src,
         MSE |-> <<0, 0>>]

(***************************************************************************)
(* The notebook's state before its first cell runs.                        *)
(***************************************************************************)
NoPipeline == <<0, 0>>
NoPickle == [pipe |-> NoPipeline, ver |-> <<0, 0>>, steps |-> <<>>]

EnvInit ==
    [dummy |-> 0, linR |-> 0, en |-> 0, la |-> 0, ri |-> 0, sgd |-> 0, KNR |-> 0, RFR |-> 0,
     regression_models |-> <<>>,
     best_models |-> <<>>,
     X_train_preprocessed |-> 0,
     check_feature_preprocess |-> 0,
     X_train_selected_preprocessed |-> 0,
     n_feature |-> None,
     X_train_check_feature |-> NoFrame,
     X_validation_check_feature |-> NoFrame,
     X_train_selected_features |-> NoFrame,
     X_validation_selected_features |-> NoFrame,
     X_test_selected_features |-> NoFrame,
     model |-> 0,
     y_pred |-> <<>>,
     MSE |-> <<0, 0>>,
     best_model |-> NoPipeline,
     volum_prediction |-> <<>>]

\* The four prepared files.  Gaps are marked NaN; Volum of the future table is
\* unknown.  Month 3 and Month 4 occur only outside the training table.
TrainingFiles ==
    {CsvFrame("training_set",
        <<CsvRow(<<1, 0>>, 1, 1, 0, 0, 1, 2),
          CsvRow(<<1, 1>>, 1, 1, 1, 1, 2, 4),
          CsvRow(<<2, 0>>, 0, 2, NaN, 0, l, 1),
          CsvRow(<<2, 1>>, 0, 2, 1, 1, 1, v),
          CsvRow(<<3, 0>>, 1, 1, 0, 0, 1, 5)>>) : l \in {NaN, 2}, v \in {NaN, 3}}

ValidationFiles ==
    {CsvFrame("validation_set",
        <<CsvRow(<<1, 0>>, 1, mo, 1, 0, 1, 2),
          CsvRow(<<1, 1>>, 1, 1, 0, 1, 2, 5),
          CsvRow(<<2, 0>>, 0, mo, NaN, 0, 2, 3)>>) : mo \in {1, 3}}

TestFiles ==
    {CsvFrame("test_set",
        <<CsvRow(<<1, 1>>, 1, 2, 1, 1, 2, 3),
          CsvRow(<<2, 1>>, 0, 2, 0, 1, l, 4)>>) : l \in {NaN, 1}}

FutureFiles ==
    {CsvFrame("toPredict_2022",
        <<CsvRow(<<1, 0>>, 1, mo, g, 0, 1, NaN),
          CsvRow(<<1, 1>>, 1, mo, 1, 1, 2, NaN),
          CsvRow(<<2, 0>>, 0, 1, 0, 0, l, NaN)>>) : mo \in {1, 4}, g \in {NaN, 1}, l \in {NaN, 2}}

FileSets ==
    {[n \in Range(DatasetNames) |->
        CASE n = "training_set" -> tr
          [] n = "validation_set" -> va
          [] n = "test_set" -> te
          [] OTHER -> fu] :
     tr \in TrainingFiles, va \in ValidationFiles, te \in TestFiles, fu \in FutureFiles}

\* features_to_test as the ablation cell writes it.
FeaturesToTest == <<"Lufttemperatur", "Globalstraling", "Solskinstid", "Hour", "isWeekday", "Month">>

InitRun(fileChoices, featureChoices) ==
    /\ pc = "read"
    /\ k = 0
    /\ j = 0
    /\ files \in fileChoices
    /\ features_to_test \in featureChoices
    /\ dataset = [n \in Range(DatasetNames) |-> NoFrame]
    /\ X = [n \in Range(DatasetNames) |-> NoFrame]
    /\ y = [n \in Range(DatasetNames) |-> NoSeries]
    /\ heap = <<>>
    /\ env = EnvInit
    /\ out = [stdout |-> <<>>, written |-> <<>>, model_pkl |-> NoPickle, predictions_csv |-> NoFrame]
    /\ calls = <<>>
    /\ error = "none"

Init ==
    /\ phase = "idle"
    /\ raw = NoFrame
    /\ imputed = NoFrame
    /\ InitRun(FileSets, {FeaturesToTest})

\* What a statement that raised leaves behind: the run stops there.
Raise(err) ==
    /\ error' = err
    /\ pc' = "aborted"

\* The effect of one evaluation (fit, predict, score, print) on the state. A
\* printed line keeps, besides what the notebook prints, the name of the target
\* the RMSE was computed against and the position in calls of the predict call
\* whose output was scored.
Evaluated(r, id, cell, feat, next, nk, nj) ==
    /\ heap' = r.heap
    /\ calls' = calls \o r.events
    /\ IF r.err # "none"
       THEN /\ Raise(r.err)
            /\ env' = [env EXCEPT !.model = id]
            /\ UNCHANGED <<k, j, out>>
       ELSE /\ env' = [env EXCEPT !.model = id, !.y_pred = r.y_pred, !.MSE = r.MSE]
            /\ out' = [out EXCEPT !.stdout =
                          Append(@, [cell |-> cell, feature |-> feat,
                                     model |-> heap[id].class, rmse |-> RoundedRoot(r.MSE),
                                     y_true |-> r.y_true,
                                     call |-> Len(calls) + Len(r.events)])]
            /\ pc' = next
            /\ k' = nk
            /\ j' = nj
            /\ UNCHANGED error

(***************************************************************************)
(* Cells 2-4: read the files, fill the gaps, split features from target.   *)
(***************************************************************************)
ReadCsv ==
    /\ pc = "read"
    /\ dataset' = [n \in Range(DatasetNames) |-> files[n]]
    /\ pc' = "handle"
    /\ k' = 1
    /\ UNCHANGED <<j, files, features_to_test, X, y, heap, env, out, calls, error>>
    /\ UNCHANGED implVars

\* The same four lines with the result of the second call not assigned.
HandleNull_unassigned ==
    /\ pc = "handle"
    /\ dataset' = IF k = 2 THEN dataset
                  ELSE [dataset EXCEPT ![DatasetNames[k]] = handleNullValues(@)]
    /\ IF k < Len(DatasetNames)
       THEN k' = k + 1 /\ pc' = pc
       ELSE k' = 1 /\ pc' = "split"
    /\ UNCHANGED <<j, files, features_to_test, X, y, heap, env, out, calls, error>>
    /\ UNCHANGED implVars

\* training_set = handleNullValues(training_set) and the three lines after it.
HandleNull ==
    /\ pc = "handle"
    /\ dataset' = [dataset EXCEPT ![DatasetNames[k]] = handleNullValues(@)]
    /\ IF k < Len(DatasetNames)
       THEN k' = k + 1 /\ pc' = pc
       ELSE k' = 1 /\ pc' = "split"
    /\ UNCHANGED <<j, files, features_to_test, X, y, heap, env, out, calls, error>>
    /\ UNCHANGED implVars

\* X_train, y_train = splitSet(training_set) and the three lines after it.
SplitSet ==
    /\ pc = "split"
    /\ X' = [X EXCEPT ![DatasetNames[k]] = splitSet_X(dataset[DatasetNames[k]])]
    /\ y' = [y EXCEPT ![DatasetNames[k]] = splitSet_y(dataset[DatasetNames[k]])]
    /\ IF k < Len(DatasetNames)
       THEN k' = k + 1 /\ pc' = pc
       ELSE k' = 0 /\ pc' = "baseline"
    /\ UNCHANGED <<j, files, features_to_test, dataset, heap, env, out, calls, error>>
    /\ UNCHANGED implVars

(***************************************************************************)
(* Cell 5: the baseline.                                                   *)
(***************************************************************************)
\* dummy = DummyRegressor(strategy="mean"), fit on the training split, scored
\* on the validation split.
Baseline ==
    /\ pc = "baseline"
    /\ LET id == Len(heap) + 1
           h0 == Append(heap, NewEstimator("DummyRegressor"))
           f == EstimatorFit(h0, id, X["training_set"], X["training_set"].data,
                             y["training_set"], "baseline", None)
           q == EstimatorPredictCall(f.heap, id, X["validation_set"], X["validation_set"].data,
                                     "baseline", None)
           mse == mean_squared_error(y["validation_set"].data, q.pred)
       IN  /\ heap' = f.heap
           /\ IF f.err # "none"
              THEN /\ Raise(f.err)
                   /\ calls' = calls \o f.events
                   /\ env' = [env EXCEPT !.dummy = id]
                   /\ UNCHANGED out
              ELSE /\ calls' = calls \o f.events \o q.events
                   /\ env' = [env EXCEPT !.dummy = id, !.y_pred = q.pred, !.MSE = mse]
                   /\ out' = [out EXCEPT !.stdout =
                                 Append(@, [cell |-> "baseline", feature |-> None,
                                            model |-> "DummyRegressor", rmse |-> RoundedRoot(mse),
                                            y_true |-> y["validation_set"].src,
                                            call |-> Len(calls) + Len(f.events) + Len(q.events)])]
                   /\ pc' = "preprocess"
                   /\ UNCHANGED error
    /\ UNCHANGED <<k, j, files, features_to_test, dataset, X, y>>
    /\ UNCHANGED implVars

(***************************************************************************)
(* Cells 6-7: the preprocessor over all features and the eight regressors. *)
(***************************************************************************)
\* X_train_preprocessed = preprocess(X_train): an unfitted ColumnTransformer.
Preprocess ==
    /\ pc = "preprocess"
    /\ heap' = Append(heap, preprocess)
    /\ env' = [env EXCEPT !.X_train_preprocessed = Len(heap) + 1]
    /\ pc' = "models"
    /\ UNCHANGED <<k, j, files, features_to_test, dataset, X, y, out, calls, error>>
    /\ UNCHANGED implVars

RegressorClasses ==
    <<"DummyRegressor", "LinearRegression", "ElasticNet", "Lasso", "Ridge", "SGDRegressor",
      "KNeighborsRegressor", "RandomForestRegressor">>

\* dummy = DummyRegressor(...) ... RFR = RandomForestRegressor(), regression_models = [...].
CreateModels ==
    /\ pc = "models"
    /\ LET n == Len(heap)
       IN  /\ heap' = heap \o [i \in 1..Len(RegressorClasses) |-> NewEstimator(RegressorClasses[i])]
           /\ env' = [env EXCEPT !.dummy = n + 1, !.linR = n + 2, !.en = n + 3, !.la = n + 4,
                                 !.ri = n + 5, !.sgd = n + 6, !.KNR = n + 7, !.RFR = n + 8,
                                 !.regression_models = [i \in 1..Len(RegressorClasses) |-> n + i]]
    /\ pc' = "compare"
    /\ k' = 1
    /\ UNCHANGED <<j, files, features_to_test, dataset, X, y, out, calls, error>>
    /\ UNCHANGED implVars

\* compare_models predicting before it fits.
compare_models_predict_first(model) ==
    PredictFitScore(heap, <<env.X_train_preprocessed, model>>,
                    X["training_set"], y["training_set"],
                    X["validation_set"], y["validation_set"], "compare", None)

\* compare_models as cell 7 defines it.
compare_models(model) ==
    FitPredictScore(heap, <<env.X_train_preprocessed, model>>,
                    X["training_set"], y["training_set"],
                    X["validation_set"], y["validation_set"], "compare", None)

\* for model in regression_models: compare_models(model)
CompareModels ==
    /\ pc = "compare"
    /\ LET model == env.regression_models[k]
       IN  IF k < Len(env.regression_models)
           THEN Evaluated(compare_models(model), model, "compare", None, "compare", k + 1, j)
           ELSE Evaluated(compare_models(model), model, "compare", None, "ablation_setup", 0, j)
    /\ UNCHANGED <<files, features_to_test, dataset, X, y>>
    /\ UNCHANGED implVars

(***************************************************************************)
(* Cell 8: feature ablation.                                               *)
(***************************************************************************)
\* KNR = KNeighborsRegressor(), RFR = RandomForestRegressor(), best_models = [KNR, RFR].
AblationSetup ==
    /\ pc = "ablation_setup"
    /\ heap' = heap \o <<NewEstimator("KNeighborsRegressor"), NewEstimator("RandomForestRegressor")>>
    /\ env' = [env EXCEPT !.KNR = Len(heap) + 1, !.RFR = Len(heap) + 2,
                          !.best_models = <<Len(heap) + 1, Len(heap) + 2>>]
    /\ pc' = "ablation_drop"
    /\ k' = 1
    /\ UNCHANGED <<j, files, features_to_test, dataset, X, y, out, calls, error>>
    /\ UNCHANGED implVars

\* The frame of the pass before (X_train on the first pass): drops accumulate.
AblationBase_carried(name) ==
    IF k = 1 THEN X[name]
    ELSE IF name = "training_set" THEN env.X_train_check_feature
    ELSE env.X_validation_check_feature

\* The frame a loop pass drops n_feature from: X_train, whatever earlier passes did.
AblationBase(name) == X[name]

\* The head of the loop body: both frames reset to the full split, n_feature
\* dropped from each, the preprocessor rebuilt by check_feature_process.
AblationDrop ==
    /\ pc = "ablation_drop"
    /\ LET n_feature == features_to_test[k]
       IN  IF DropRaises(AblationBase("training_set"), {n_feature})
           THEN /\ Raise("KeyError")
                /\ env' = [env EXCEPT !.n_feature = n_feature,
                                      !.X_train_check_feature = X["training_set"],
                                      !.X_validation_check_feature = X["validation_set"]]
                /\ UNCHANGED <<j, heap>>
           ELSE /\ heap' = Append(heap, check_feature_process(n_feature))
                /\ env' = [env EXCEPT
                             !.n_feature = n_feature,
                             !.X_train_check_feature = Drop(AblationBase("training_set"), {n_feature}),
                             !.X_validation_check_feature = Drop(AblationBase("validation_set"), {n_feature}),
                             !.check_feature_preprocess = Len(heap) + 1]
                /\ pc' = "ablation_eval"
                /\ j' = 1
                /\ UNCHANGED error
    /\ UNCHANGED <<k, files, features_to_test, dataset, X, y, out, calls>>
    /\ UNCHANGED implVars

\* check_feature_compare fitting the pipeline on the validation frame.
check_feature_compare_leak(model) ==
    FitPredictScore(heap, <<env.check_feature_preprocess, model>>,
                    env.X_validation_check_feature, y["validation_set"],
                    env.X_validation_check_feature, y["validation_set"],
                    "ablation", env.n_feature)

\* check_feature_compare: the globals of the current loop pass, fit and scored.
check_feature_compare(model) ==
    FitPredictScore(heap, <<env.check_feature_preprocess, model>>,
                    env.X_train_check_feature, y["training_set"],
                    env.X_validation_check_feature, y["validation_set"],
                    "ablation", env.n_feature)

\* for model in best_models: check_feature_compare(model)
CheckFeatureCompare ==
    /\ pc = "ablation_eval"
    /\ LET model == env.best_models[j]
       IN  IF j < Len(env.best_models)
           THEN Evaluated(check_feature_compare(model), model, "ablation", env.n_feature,
                          "ablation_eval", k, j + 1)
           ELSE IF k < Len(features_to_test)
           THEN Evaluated(check_feature_compare(model), model, "ablation", env.n_feature,
                          "ablation_drop", k + 1, 0)
           ELSE Evaluated(check_feature_compare(model), model, "ablation", env.n_feature,
                          "selected_setup", 0, 0)
    /\ UNCHANGED <<files, features_to_test, dataset, X, y>>
    /\ UNCHANGED implVars

(***************************************************************************)
(* Cell 9: the two best regressors on the reduced feature set.             *)
(***************************************************************************)
BadFeatures == {"Globalstraling", "Solskinstid"}

\* The reduced frames, X_train_selected_preprocessed, and new KNR and RFR.
SelectedSetup ==
    /\ pc = "selected_setup"
    /\ heap' = heap \o <<preprocess_selected_features,
                         NewEstimator("KNeighborsRegressor"),
                         NewEstimator("RandomForestRegressor")>>
    /\ env' = [env EXCEPT
                 !.X_train_selected_features = Drop(X["training_set"], BadFeatures),
                 !.X_validation_selected_features = Drop(X["validation_set"], BadFeatures),
                 !.X_train_selected_preprocessed = Len(heap) + 1,
                 !.KNR = Len(heap) + 2,
                 !.RFR = Len(heap) + 3,
                 !.regression_models = <<Len(heap) + 2, Len(heap) + 3>>]
    /\ pc' = "selected_compare"
    /\ k' = 1
    /\ UNCHANGED <<j, files, features_to_test, dataset, X, y, out, calls, error>>
    /\ UNCHANGED implVars

\* compare_models of cell 9 predicting and scoring the test set.
compare_models_selected_on_test(model) ==
    FitPredictScore(heap, <<env.X_train_selected_preprocessed, model>>,
                    env.X_train_selected_features, y["training_set"],
                    Drop(X["test_set"], BadFeatures), y["test_set"],
                    "selected", None)

\* compare_models as cell 9 redefines it.
compare_models_selected(model) ==
    FitPredictScore(heap, <<env.X_train_selected_preprocessed, model>>,
                    env.X_train_selected_features, y["training_set"],
                    env.X_validation_selected_features, y["validation_set"],
                    "selected", None)

\* for model in regression_models: compare_models(model)
CompareModelsSelected ==
    /\ pc = "selected_compare"
    /\ LET model == env.regression_models[k]
       IN  IF k < Len(env.regression_models)
           THEN Evaluated(compare_models_selected(model), model, "selected", None,
                          "selected_compare", k + 1, j)
           ELSE Evaluated(compare_models_selected(model), model, "selected", None,
                          "final_fit", 0, j)
    /\ UNCHANGED <<files, features_to_test, dataset, X, y>>
    /\ UNCHANGED implVars

(***************************************************************************)
(* Cell 10: the final model, its test score, model.pkl.                    *)
(***************************************************************************)
\* best_model = make_pipeline(X_train_selected_preprocessed, KNR); best_model.fit(...)
BestModelFit ==
    /\ pc = "final_fit"
    /\ LET pipe == <<env.X_train_selected_preprocessed, env.KNR>>
           f == PipelineFit(heap, pipe, env.X_train_selected_features, y["training_set"],
                            "final", None)
       IN  /\ heap' = f.heap
           /\ calls' = calls \o f.events
           /\ env' = [env EXCEPT !.best_model = pipe]
           /\ IF f.err # "none" THEN Raise(f.err) ELSE pc' = "final_test" /\ UNCHANGED error
    /\ UNCHANGED <<k, j, files, features_to_test, dataset, X, y, out>>
    /\ UNCHANGED implVars

\* X_test_selected_features, the prediction on it, the test RMSE and its print.
BestModelTest ==
    /\ pc = "final_test"
    /\ LET Xte == Drop(X["test_set"], BadFeatures)
           q == PipelinePredict(heap, env.best_model, Xte, "final", None)
           mse == mean_squared_error(y["test_set"].data, q.pred)
       IN  /\ calls' = calls \o q.events
           /\ IF q.err # "none"
              THEN /\ Raise(q.err)
                   /\ env' = [env EXCEPT !.X_test_selected_features = Xte]
                   /\ UNCHANGED out
              ELSE /\ env' = [env EXCEPT !.X_test_selected_features = Xte,
                                         !.y_pred = q.pred, !.MSE = mse]
                   /\ out' = [out EXCEPT !.stdout =
                                 Append(@, [cell |-> "final", feature |-> None,
                                            model |-> heap[env.KNR].class,
                                            rmse |-> RoundedRoot(mse),
                                            y_true |-> y["test_set"].src,
                                            call |-> Len(calls) + Len(q.events)])]
                   /\ pc' = "pickle"
                   /\ UNCHANGED error
    /\ UNCHANGED <<k, j, files, features_to_test, dataset, X, y, heap>>
    /\ UNCHANGED implVars

\* The cell without its last line: nothing is pickled.
PickleDump_skipped ==
    /\ pc = "pickle"
    /\ pc' = "predict"
    /\ UNCHANGED <<k, j, files, features_to_test, dataset, X, y, heap, env, out, calls, error>>
    /\ UNCHANGED implVars

\* pickle.dump(best_model, ...): the pipeline's two steps as they are now.
PickleDump ==
    /\ pc = "pickle"
    /\ out' = [out EXCEPT !.written = Append(@, "model.pkl"),
                          !.model_pkl =
                  [pipe |-> env.best_model,
                   ver |-> <<heap[env.best_model[1]].nfit, heap[env.best_model[2]].nfit>>,
                   steps |-> <<heap[env.best_model[1]], heap[env.best_model[2]]>>]]
    /\ pc' = "predict"
    /\ UNCHANGED <<k, j, files, features_to_test, dataset, X, y, heap, env, calls, error>>
    /\ UNCHANGED implVars

(***************************************************************************)
(* Cell 11: predictions for the future table.                              *)
(***************************************************************************)
\* volum_prediction = best_model.predict(X_toPredict)
VolumPrediction ==
    /\ pc = "predict"
    /\ LET q == PipelinePredict(heap, env.best_model, X["toPredict_2022"], "predict", None)
       IN  /\ calls' = calls \o q.events
           /\ IF q.err # "none"
              THEN Raise(q.err) /\ UNCHANGED env
              ELSE /\ env' = [env EXCEPT !.volum_prediction = q.pred]
                   /\ pc' = "fill_volum"
                   /\ UNCHANGED error
    /\ UNCHANGED <<k, j, files, features_to_test, dataset, X, y, heap, out>>
    /\ UNCHANGED implVars

\* toPredict_2022.Volum = volum_prediction, then .round(): whole numbers.
FillVolum ==
    /\ pc = "fill_volum"
    /\ dataset' = [dataset EXCEPT !["toPredict_2022"].data =
                      [i \in 1..Len(@) |->
                          [@[i] EXCEPT !["Volum"] = RoundHalfEven(env.volum_prediction[i])]]]
    /\ pc' = "to_csv"
    /\ UNCHANGED <<k, j, files, features_to_test, X, y, heap, env, out, calls, error>>
    /\ UNCHANGED implVars

\* toPredict_2022.to_csv('predictions.csv')
ToCsv ==
    /\ pc = "to_csv"
    /\ out' = [out EXCEPT !.written = Append(@, "predictions.csv"),
                          !.predictions_csv = dataset["toPredict_2022"]]
    /\ pc' = "done"
    /\ UNCHANGED <<k, j, files, features_to_test, dataset, X, y, heap, env, calls, error>>
    /\ UNCHANGED implVars

Next ==
    \/ ReadCsv
    \/ HandleNull
    \/ SplitSet
    \/ Baseline
    \/ Preprocess
    \/ CreateModels
    \/ CompareModels
    \/ AblationSetup
    \/ AblationDrop
    \/ CheckFeatureCompare
    \/ SelectedSetup
    \/ CompareModelsSelected
    \/ BestModelFit
    \/ BestModelTest
    \/ PickleDump
    \/ VolumPrediction
    \/ FillVolum
    \/ ToCsv

Spec == Init /\ [][Next]_vars

(***************************************************************************)
(* SpecAblation: the same notebook, with features_to_test either as        *)
(* written or with one more name, which is in neither feature list.        *)
(***************************************************************************)
AbsentFeature == "Vindstyrke"

InitAblation ==
    /\ phase = "idle"
    /\ raw = NoFrame
    /\ imputed = NoFrame
    /\ InitRun(FileSets, {FeaturesToTest,
                          <<AbsentFeature>> \o FeaturesToTest,
                          FeaturesToTest \o <<AbsentFeature>>})

SpecAblation == InitAblation /\ [][Next]_vars

(***************************************************************************)
(* Claims about handleNullValues (SpecImpute).                             *)
(***************************************************************************)
RawDate(i) == raw.data[i][DatoTid][1]
RawHour(i) == raw.data[i][DatoTid][2]

\* Rows of the same hour-of-day on an earlier date that hold a value in column c.
Donors(i, c) ==
    {p \in 1..Len(raw.data) :
        /\ RawHour(p) = RawHour(i)
        /\ RawDate(p) < RawDate(i)
        /\ raw.data[p][c] # NaN}

NearestDonor(i, c) == CHOOSE p \in Donors(i, c) : \A q \in Donors(i, c) : RawDate(q) <= RawDate(p)

C2_LeadingGapStaysMissing ==
    phase = "imputed" =>
        \A i \in 1..Len(raw.data) : \A c \in Range(imputed.cols) :
            (/\ raw.data[i][c] = NaN
             /\ \A p \in 1..(i - 1) : RawHour(p) = RawHour(i) => raw.data[p][c] = NaN)
            => imputed.data[i][c] = NaN

\* The first row of an hour is missing, a row of another hour above it holds a
\* value, a later row of its own hour holds a value, and it is still missing.
C2_Witness ==
    /\ phase = "imputed"
    /\ \E i \in 2..Len(raw.data) : \E q \in 1..Len(raw.data) :
         /\ raw.data[i]["Lufttemperatur"] = NaN
         /\ \A p \in 1..(i - 1) : RawHour(p) # RawHour(i)
         /\ raw.data[i - 1]["Lufttemperatur"] # NaN
         /\ q > i /\ RawHour(q) = RawHour(i) /\ raw.data[q]["Lufttemperatur"] # NaN
         /\ imputed.data[i]["Lufttemperatur"] = NaN

(***************************************************************************)
(* Claims about the run of the notebook (Spec).                            *)
(***************************************************************************)
Held == {"validation_set", "test_set", "toPredict_2022"}
Instances == 1..Len(heap)
IsTransformer(id) == heap[id].class = "ColumnTransformer"
CallsOf(cell) == {i \in 1..Len(calls) : calls[i].cell = cell}

\* C3: every fit, of a preprocessor or of an estimator, in every pipeline, is
\* given the training features and the training target; validation, test and
\* future data only ever reach transform and predict; and the parameters a
\* fitted preprocessor holds (categories, mean, variance) are those of the
\* training features.
C3_FitOnlyOnTraining ==
    /\ \A i \in 1..Len(calls) :
         /\ calls[i].op = "fit" =>
               calls[i].src = "training_set" /\ calls[i].ysrc = "training_set"
         /\ calls[i].src \in Held => calls[i].op \in {"transform", "predict"}
    /\ \A id \in Instances :
         heap[id].nfit > 0 =>
            IF IsTransformer(id)
            THEN /\ \A b \in 1..Len(heap[id].cat) :
                      Range(heap[id].state.categories[b]) =
                         {X["training_set"].data[r][heap[id].cat[b]] :
                             r \in 1..Len(X["training_set"].data)}
                 /\ \A b \in 1..Len(heap[id].num) :
                      heap[id].state.stats[b] = ScalerFit(X["training_set"], heap[id].num[b])
            ELSE heap[id].state.y = y["training_set"].data

\* The run is over; each of the four kinds of pipeline has been fit, and
\* validation, test and future data have each been predicted on.
C3_Witness ==
    /\ pc = "done"
    /\ \A cell \in {"compare", "ablation", "selected", "final"} :
          \E i \in CallsOf(cell) : calls[i].op = "fit"
    /\ \A n \in Held : \E i \in 1..Len(calls) : calls[i].src = n /\ calls[i].op = "predict"

BestSteps == {env.best_model[1], env.best_model[2]}
FinalFits == {i \in CallsOf("final") : calls[i].op = "fit"}
TestPredicts == {i \in CallsOf("final") : calls[i].op = "predict"}
FuturePredicts == {i \in CallsOf("predict") : calls[i].op = "predict"}
ReducedFeatures == AllFeatures \ BadFeatures
StepVersion(i) == <<calls[i - 1].ver, calls[i].ver>>

\* C4: in the final stage the selected estimator is fit on the training data
\* restricted to the reduced feature set, then scored on the test data, then
\* pickled, and only then applied to the future table, whose predictions are
\* written last; no step happens twice, a finished run has done each once;
\* and the pickled pipeline is the fitted pipeline that scored the test data
\* and predicted the future table.
C4_FinalStageOrder ==
    /\ Cardinality(FinalFits) <= 2
    /\ Cardinality(TestPredicts) <= 1
    /\ Cardinality(FuturePredicts) <= 1
    /\ \A i \in FinalFits :
          /\ calls[i].obj \in BestSteps
          /\ calls[i].src = "training_set"
          /\ Range(calls[i].cols) = ReducedFeatures
    /\ \A i \in TestPredicts :
          /\ Cardinality(FinalFits) = 2 /\ \A f \in FinalFits : f < i
          /\ calls[i].src = "test_set"
          /\ calls[i].obj = env.best_model[2] /\ calls[i - 1].obj = env.best_model[1]
    /\ out.model_pkl # NoPickle =>
          /\ TestPredicts # {}
          /\ out.model_pkl.pipe = env.best_model
          /\ \A i \in TestPredicts : out.model_pkl.ver = StepVersion(i)
          /\ out.model_pkl.steps = <<heap[env.best_model[1]], heap[env.best_model[2]]>>
    /\ \A i \in FuturePredicts :
          /\ out.model_pkl # NoPickle
          /\ calls[i].src = "toPredict_2022"
          /\ calls[i].obj = env.best_model[2] /\ calls[i - 1].obj = env.best_model[1]
          /\ out.model_pkl.ver = StepVersion(i)
    /\ out.written \in {<<>>, <<"model.pkl">>, <<"model.pkl", "predictions.csv">>}
    /\ (out.model_pkl # NoPickle) = ("model.pkl" \in Range(out.written))
    /\ (out.predictions_csv # NoFrame) = ("predictions.csv" \in Range(out.written))
    /\ out.predictions_csv # NoFrame => FuturePredicts # {}
    /\ pc = "done" =>
          /\ Cardinality(FinalFits) = 2
          /\ Cardinality(TestPredicts) = 1
          /\ Cardinality(FuturePredicts) = 1
          /\ out.written = <<"model.pkl", "predictions.csv">>

\* The run is over and both files are written.
C4_Witness ==
    /\ pc = "done"
    /\ out.model_pkl # NoPickle
    /\ out.predictions_csv # NoFrame
    /\ FuturePredicts # {} /\ TestPredicts # {}

FillableGaps(fr) ==
    {<<i, c>> \in (1..Len(fr.data)) \X Range(fr.cols) :
        /\ fr.data[i][c] = NaN
        /\ \E p \in 1..(i - 1) :
              IndexHour(fr.index[p]) = IndexHour(fr.index[i]) /\ fr.data[p][c] # NaN}

C5_PredictionsFile ==
    out.predictions_csv # NoFrame =>
        LET filled == handleNullValues(files["toPredict_2022"])
            reduced == Drop(Drop(filled, {"Volum"}), {"Globalstraling", "Solskinstid"})
            fitted == out.model_pkl.steps
            predicted == EstimatorPredict(fitted[2], CTTransform(fitted[1], reduced))
            csv == out.predictions_csv
        IN  /\ Range(reduced.cols) = {"Hour", "isWeekday", "Month", "Lufttemperatur"}
            /\ Range(fitted[1].cat) \cup Range(fitted[1].num) = Range(reduced.cols)
            /\ csv.cols = filled.cols
            /\ csv.index = filled.index
            /\ Len(csv.data) = Len(filled.data)
            /\ \A i \in 1..Len(csv.data) :
                 /\ \A c \in Range(csv.cols) \ {"Volum"} : csv.data[i][c] = filled.data[i][c]
                 /\ csv.data[i]["Volum"] # NaN
                 /\ 10 * csv.data[i]["Volum"] - 5 <= predicted[i]
                 /\ predicted[i] <= 10 * csv.data[i]["Volum"] + 5

\* predictions.csv is written; a prediction that was no whole number is in it
\* rounded, a gap of the file is in it filled, and a leading gap of a removed
\* feature is in it as it was.
C5_Witness ==
    /\ out.predictions_csv # NoFrame
    /\ \E i \in 1..Len(env.volum_prediction) :
          /\ env.volum_prediction[i] % 10 > 5
          /\ out.predictions_csv.data[i]["Volum"] = env.volum_prediction[i] \div 10 + 1
    /\ \E i \in 1..Len(out.predictions_csv.data) :
          /\ files["toPredict_2022"].data[i]["Lufttemperatur"] = NaN
          /\ out.predictions_csv.data[i]["Lufttemperatur"] # NaN
    /\ \E i \in 1..Len(out.predictions_csv.data) :
          out.predictions_csv.data[i]["Globalstraling"] = NaN

\* C6 (SpecAblation): a candidate feature that is in neither feature list
\* raises no error, and the RMSE printed for it is the RMSE the full-feature
\* comparison printed for the same model.
C6_AbsentFeatureIgnored ==
    /\ (env.n_feature # None /\ env.n_feature \notin AllFeatures) => error = "none"
    /\ \A i \in 1..Len(out.stdout) :
          (out.stdout[i].cell = "ablation" /\ out.stdout[i].feature \notin AllFeatures) =>
              \E f \in 1..Len(out.stdout) :
                  /\ out.stdout[f].cell = "compare"
                  /\ out.stdout[f].model = out.stdout[i].model
                  /\ out.stdout[f].rmse = out.stdout[i].rmse

\* C9: in everything a preprocessor has put out, the one-hot block of a
\* categorical feature has one position per category of the training data,
\* holds exactly one 1 when the value is one of them and only zeros when it is
\* not; an unseen category raises no error.
C9_UnknownCategoryAllZeros ==
    /\ error # "ValueError: unknown category"
    /\ \A i \in 1..Len(calls) :
          IsTransformer(calls[i].obj) =>
             \A r \in 1..Len(calls[i].Xt) : \A b \in 1..Len(heap[calls[i].obj].cat) :
                LET c == heap[calls[i].obj].cat[b]
                    v == X[calls[i].src].data[r][c]
                    seen == {X["training_set"].data[q][c] : q \in 1..Len(X["training_set"].data)}
                    block == calls[i].Xt[r][b]
                IN  /\ Len(block) = Cardinality(seen)
                    /\ \A p \in 1..Len(block) : block[p] \in {0, 1}
                    /\ SumSeq(block) = IF v \in seen THEN 1 ELSE 0

UnseenMonth(i) ==
    /\ calls[i].op = "transform"
    /\ \E r \in 1..Len(calls[i].Xt) : \E b \in 1..Len(heap[calls[i].obj].cat) :
          /\ heap[calls[i].obj].cat[b] = "Month"
          /\ X[calls[i].src].data[r]["Month"] \in {3, 4}
          /\ SumSeq(calls[i].Xt[r][b]) = 0

\* A Month the training data does not hold has been encoded, as zeros, by the
\* preprocessor of each cell that builds one and by the final pipeline.
C9_Witness ==
    \A cell \in {"compare", "ablation", "selected", "predict"} :
        \E i \in CallsOf(cell) : UnseenMonth(i)

TransformerFeatures(id) == Range(heap[id].cat) \cup Range(heap[id].num)
AfterAblation ==
    {"selected_setup", "selected_compare", "final_fit", "final_test", "pickle", "predict",
     "fill_volum", "to_csv", "done"}

\* C10: in every pass of the ablation loop both models are fit and scored
\* with exactly the pass's feature removed: the training frame, the
\* validation frame and the preprocessor's two lists hold the five other
\* features; X_train and X_validation keep all six, so nothing carries over,
\* and the preprocessor names no column its frame lacks.
C10_OneFeatureRemoved ==
    /\ error # "ValueError: missing column"
    /\ pc \in {"ablation_drop", "ablation_eval"} =>
          /\ Range(X["training_set"].cols) = AllFeatures
          /\ Range(X["validation_set"].cols) = AllFeatures
    /\ pc = "ablation_eval" =>
          /\ env.n_feature = features_to_test[k]
          /\ Range(env.X_train_check_feature.cols) = AllFeatures \ {env.n_feature}
          /\ Range(env.X_validation_check_feature.cols) = AllFeatures \ {env.n_feature}
          /\ TransformerFeatures(env.check_feature_preprocess) = AllFeatures \ {env.n_feature}
    /\ \A i \in CallsOf("ablation") :
          /\ Range(calls[i].cols) = AllFeatures \ {calls[i].feature}
          /\ Cardinality(Range(calls[i].cols)) = 5
          /\ IsTransformer(calls[i].obj) =>
                TransformerFeatures(calls[i].obj) = AllFeatures \ {calls[i].feature}
    /\ pc \in AfterAblation =>
          \A f \in AllFeatures : \A m \in Range(env.best_models) :
             /\ \E i \in CallsOf("ablation") :
                   calls[i].op = "fit" /\ calls[i].obj = m /\ calls[i].feature = f
             /\ \E i \in CallsOf("ablation") :
                   /\ calls[i].op = "predict" /\ calls[i].obj = m /\ calls[i].feature = f
                   /\ calls[i].src = "validation_set"

\* The second model of the last pass is about to be scored, with Month removed
\* and the five features removed in earlier passes back in both frames.
C10_Witness ==
    /\ pc = "ablation_eval"
    /\ k = 6 /\ j = 2
    /\ env.n_feature = "Month"
    /\ Range(env.X_train_check_feature.cols) = AllFeatures \ {"Month"}
    /\ \E i \in CallsOf("ablation") : calls[i].op = "predict" /\ calls[i].feature = "Month"

ComparisonCells == {"baseline", "compare", "ablation", "selected"}
PrintedLines(cell) == {s \in 1..Len(out.stdout) : out.stdout[s].cell = cell}
TestScores == {s \in 1..Len(out.stdout) : out.stdout[s].y_true = "test_set"}
TestReads == {i \in 1..Len(calls) : calls[i].src = "test_set" \/ calls[i].ysrc = "test_set"}

====
